---- MODULE Spec2Model ----
(***************************************************************************)
(* GIF Background Remover (gif_bg_remover.py): the GifBackgroundRemover    *)
(* widget, its event handlers, and the per-frame transparency / bounding   *)
(* box / crop / palette-remap pass of process_gif.                         *)
(*                                                                         *)
(* process_gif runs on the GUI thread and calls QApplication.processEvents *)
(* five times; at each of those calls pending user events are dispatched   *)
(* to their handlers on top of the suspended call.  The model keeps one    *)
(* activation record per active process_gif call on a stack.               *)
(***************************************************************************)
EXTENDS Integers, Sequences, FiniteSets

VARIABLES
    gif_path,            \* self.gif_path: NoPath, or the document the path names
    selected_color,      \* self.selected_color: NoColor or <<r, g, b>>
    processed_gif_path,  \* self.processed_gif_path: TRUE when set to the temp path
    movie,               \* self.movie: "none", "input" or "output"
    open_visible,        \* open_button visibility
    process_visible,     \* process_button visibility
    save_visible,        \* save_button visibility
    fuzz_visible,        \* fuzz_slider visibility
    fuzz,                \* fuzz_slider.value()
    status,              \* status_label text
    tempFile,            \* <tempdir>/temp_output.gif on disk
    closed,              \* closeEvent has been accepted
    stack,               \* activation records of the active process_gif calls
    removeFailed,        \* some os.remove raised PermissionError
    cw_pixel,            \* color_within_fuzz call: pixel_color argument
    cw_target,           \* color_within_fuzz call: target_color argument
    cw_fuzz,             \* color_within_fuzz call: fuzz_percentage argument
    cw_result            \* color_within_fuzz call: "pending", "true" or "false"

guiVars == <<gif_path, selected_color, processed_gif_path, movie, open_visible,
             process_visible, save_visible, fuzz_visible, fuzz, status, tempFile,
             closed, stack, removeFailed>>

cwVars == <<cw_pixel, cw_target, cw_fuzz, cw_result>>

vars == <<guiVars, cwVars>>

----------------------------------------------------------------------------
(* Program constants *)

\* threshold = fuzz_percentage / 100 * 255
MaxChannel == 255

\* threshold = fuzz_percentage / 100 * 255
PercentScale == 100

\* frame.info.get("duration", 100)
DefaultDuration == 100

\* convert('P', palette=Image.ADAPTIVE, colors=255)
QuantColors == 255

\* frame_p_data[i] = 255 ; frame_p.info['transparency'] = 255
TransparentIndex == 255

\* fuzz_slider.setMinimum(0)
FuzzMin == 0

\* fuzz_slider.setMaximum(100)
FuzzMax == 100

----------------------------------------------------------------------------
(* Bounds of the model *)

\* how many process_gif calls may be active (nested through processEvents)
MaxDepth == 2

----------------------------------------------------------------------------
(* color_within_fuzz *)

Abs(n) == IF n < 0 THEN -n ELSE n

\* r_diff ** 2 + g_diff ** 2 + b_diff ** 2, the square of `distance`
SqDistance(pixel_color, target_color) ==
    LET r_diff == Abs(pixel_color[1] - target_color[1])
        g_diff == Abs(pixel_color[2] - target_color[2])
        b_diff == Abs(pixel_color[3] - target_color[3])
    IN  r_diff * r_diff + g_diff * g_diff + b_diff * b_diff

\* mutant: strict comparison, distance < threshold
color_within_fuzz_strict(pixel_color, target_color, fuzz_percentage) ==
    PercentScale * PercentScale * SqDistance(pixel_color, target_color)
        < (fuzz_percentage * MaxChannel) * (fuzz_percentage * MaxChannel)

\* mutant: threshold = fuzz_percentage / 100 * 256
color_within_fuzz_256(pixel_color, target_color, fuzz_percentage) ==
    PercentScale * PercentScale * SqDistance(pixel_color, target_color)
        <= (fuzz_percentage * (MaxChannel + 1)) * (fuzz_percentage * (MaxChannel + 1))

\* distance <= threshold with threshold = fuzz_percentage / 100 * 255 and
\* distance = sqrt(r_diff^2 + g_diff^2 + b_diff^2).  Both sides are >= 0, so
\* the comparison is that of the squares, scaled by 100^2 to stay in the
\* integers: 100^2 * d2 <= (fuzz * 255)^2.  For every fuzz in 0..100 and
\* every d2 in 0..3*255^2 the double-precision evaluation of the source
\* expression gives the same answer as this exact one (the two sides are
\* either equal with both roundings exact, or differ by more than 1e-5).
color_within_fuzz(pixel_color, target_color, fuzz_percentage) ==
    PercentScale * PercentScale * SqDistance(pixel_color, target_color)
        <= (fuzz_percentage * MaxChannel) * (fuzz_percentage * MaxChannel)

----------------------------------------------------------------------------
(* Values *)

NoColor == <<>>

\* channel values the colours of the model are built from
Black == <<0, 0, 0>>
Dark == <<51, 0, 0>>
White == <<255, 255, 255>>

\* colours a click on the displayed frame can select
Colors == {Black, Dark, White}
GuiColors == {Black}

\* slider positions tried: 0, and 20 where the threshold is 51, the distance
\* between Black and Dark
FuzzValues == {FuzzMin, 20}
GuiFuzzValues == {FuzzMin, 20}

\* RGBA pixels of decoded frames: opaque ones, and one whose source alpha is 0
Opaque(c) == <<c[1], c[2], c[3], 255>>
SeeThrough(c) == <<c[1], c[2], c[3], 0>>
PixelValues == {Opaque(Black), Opaque(Dark), SeeThrough(White)}

\* frame.info without / with a "duration" key
FrameDurations == {{}, {40}}

\* (width, height, frame count) of the documents of the frame-level runs
Shapes == {<<2, 2, 1>>, <<2, 1, 2>>, <<1, 2, 2>>}

DocsOfShape(w, h, n, pixels) ==
    { [width |-> w, height |-> h,
       frames |-> [k \in 1..n |-> [data |-> ds[k], duration |-> du[k]]]] :
        ds \in [1..n -> [1..(w * h) -> pixels]],
        du \in [1..n -> FrameDurations] }

\* documents of the frame-level specification: every frame sequence of a shape
FrameDocs == UNION { DocsOfShape(s[1], s[2], s[3], PixelValues) : s \in Shapes }

\* documents of the event-level specification
GuiDocs ==
    { [width |-> 2, height |-> 1,
       frames |-> <<[data |-> <<Opaque(Black), Opaque(Dark)>>, duration |-> {40}]>>],
      [width |-> 1, height |-> 1,
       frames |-> <<[data |-> <<Opaque(Black)>>, duration |-> {}]>>] }

NoPath == [width |-> 0, height |-> 0, frames |-> <<>>]

Absent == [state |-> "absent", frames |-> <<>>, durations |-> <<>>]
Partial == [state |-> "partial", frames |-> <<>>, durations |-> <<>>]

----------------------------------------------------------------------------
(* The per-frame transparency pass and the bounding box (process_gif) *)

\* frame.info.get("duration", 100)
info_get_duration(frame) ==
    IF frame.duration = {} THEN DefaultDuration
    ELSE CHOOSE d \in frame.duration : TRUE

\* item[:3]
RGB(item) == <<item[1], item[2], item[3]>>

\* new_data: (0, 0, 0, 0) where the pixel is within fuzz of the colour, else item
NewData(datas, transparency_color, fuzz_percentage) ==
    [i \in 1..Len(datas) |->
        IF color_within_fuzz(RGB(datas[i]), transparency_color, fuzz_percentage)
        THEN <<0, 0, 0, 0>>
        ELSE datas[i]]

\* non_transparent_pixels: (index % width, index // width) of every pixel that
\* was not within fuzz, in index order (enumerate counts from 0)
NonTransparentPixels(datas, width, transparency_color, fuzz_percentage) ==
    LET indices == [i \in 1..Len(datas) |-> i]
        kept(i) == ~color_within_fuzz(RGB(datas[i]), transparency_color, fuzz_percentage)
        keptIdx == SelectSeq(indices, kept)
    IN  [j \in 1..Len(keptIdx) |->
            <<(keptIdx[j] - 1) % width, (keptIdx[j] - 1) \div width>>]

\* one pass of the body of `for x, y in non_transparent_pixels`;
\* box is <<min_x, min_y, max_x, max_y>>
UpdateBox(box, pt) ==
    LET x == pt[1]
        y == pt[2]
    IN  <<IF x < box[1] THEN x ELSE box[1],
          IF y < box[2] THEN y ELSE box[2],
          IF x > box[3] THEN x ELSE box[3],
          IF y > box[4] THEN y ELSE box[4]>>

RECURSIVE FoldBox(_, _, _)
\* for x, y in non_transparent_pixels: ...
FoldBox(box, pts, j) ==
    IF j > Len(pts) THEN box
    ELSE FoldBox(UpdateBox(box, pts[j]), pts, j + 1)

\* mutant: the box starts at (0, 0, 0, 0)
InitialBox_zero(img) == <<0, 0, 0, 0>>

\* min_x = img.width ; min_y = img.height ; max_x = 0 ; max_y = 0
InitialBox(img) == <<img.width, img.height, 0, 0>>

RECURSIVE ClassifyFrames(_, _, _, _, _, _)
\* for frame in ImageSequence.Iterator(img): ... temp_frames.append(...)
\* returns the box and temp_frames after frames k.. of img
ClassifyFrames(img, transparency_color, fuzz_percentage, k, box, temp_frames) ==
    IF k > Len(img.frames) THEN [box |-> box, temp_frames |-> temp_frames]
    ELSE
        LET frame == img.frames[k]
            duration == info_get_duration(frame)
            datas == frame.data
            frame_rgba == NewData(datas, transparency_color, fuzz_percentage)
            pts == NonTransparentPixels(datas, img.width, transparency_color,
                                        fuzz_percentage)
        IN  ClassifyFrames(img, transparency_color, fuzz_percentage, k + 1,
                           FoldBox(box, pts, 1),
                           Append(temp_frames,
                                  [data |-> frame_rgba, duration |-> duration]))

\* if min_x > max_x or min_y > max_y
BoxIsEmpty(box) == box[1] > box[3] \/ box[2] > box[4]

----------------------------------------------------------------------------
(* Crop and palette remap (process_gif) *)

\* frame_rgba.crop((min_x, min_y, max_x + 1, max_y + 1)): the pixels of the
\* rectangle in row-major order; a pixel outside the image is (0, 0, 0, 0)
Crop(data, width, height, box) ==
    LET left == box[1]
        upper == box[2]
        right == box[3] + 1
        lower == box[4] + 1
        w == right - left
        h == lower - upper
    IN  [j \in 1..(w * h) |->
            LET x == left + ((j - 1) % w)
                y == upper + ((j - 1) \div w)
            IN  IF x < width /\ y < height
                THEN data[y * width + x + 1]
                ELSE <<0, 0, 0, 0>>]

\* how many distinct pixel values a frame holds
DistinctCount(pixels) == Cardinality({pixels[i] : i \in 1..Len(pixels)})

\* the first position holding the value at position i
FirstIndex(pixels, i) ==
    CHOOSE j \in 1..i : pixels[j] = pixels[i] /\ \A m \in 1..(j - 1) : pixels[m] # pixels[i]

\* cropped_frame.convert('P', palette=Image.ADAPTIVE, colors=255): the
\* quantizer gives equal pixels equal indices out of `colors` palette entries,
\* 0..colors-1.  Which entry a colour gets is the library's choice: the model
\* numbers the colours in order of first appearance, from the bottom of the
\* range or (high) so that the last one is entry colors-1.
Quantize(pixels, colors, high) ==
    LET base == IF high THEN colors - DistinctCount(pixels) ELSE 0
    IN  [i \in 1..Len(pixels) |->
            base + Cardinality({FirstIndex(pixels, m) : m \in 1..Len(pixels)}
                               \cap (1..(FirstIndex(pixels, i) - 1)))]

\* mutant: the remap tests the red channel instead of alpha
Remap_red(frame_p_data, pixels) ==
    [i \in 1..Len(frame_p_data) |->
        IF pixels[i][1] = 0 THEN TransparentIndex ELSE frame_p_data[i]]

\* for i in range(len(frame_p_data)): if pixels[i][3] == 0: frame_p_data[i] = 255
Remap(frame_p_data, pixels) ==
    [i \in 1..Len(frame_p_data) |->
        IF pixels[i][4] = 0 THEN TransparentIndex ELSE frame_p_data[i]]

\* mutant: every frame is stored with the default duration
ProcessedDurations_default(temp_frames) ==
    [k \in 1..Len(temp_frames) |-> DefaultDuration]

\* processed_durations: the duration of each (frame_rgba, duration) in order
ProcessedDurations(temp_frames) ==
    [k \in 1..Len(temp_frames) |-> temp_frames[k].duration]

\* the cropped RGBA frames, one per entry of temp_frames
CroppedFrames(call) ==
    [k \in 1..Len(call.temp_frames) |->
        Crop(call.temp_frames[k].data, call.img.width, call.img.height,
             <<call.min_x, call.min_y, call.max_x, call.max_y>>)]

----------------------------------------------------------------------------
(* The window and its handlers *)

\* the locals of one process_gif call; pc is the place the call is at
NewCall(fuzz_percentage) ==
    [pc |-> "events_343", fuzz_percentage |-> fuzz_percentage, img |-> NoPath,
     transparency_color |-> NoColor, min_x |-> 0, min_y |-> 0, max_x |-> 0,
     max_y |-> 0, temp_frames |-> <<>>, quantized |-> <<>>,
     processed_frames |-> <<>>, processed_durations |-> <<>>]

\* the places where a call sits inside QApplication.processEvents()
PumpPcs == {"events_343", "events_352", "events_406", "events_409", "events_440"}

Top == stack[Len(stack)]

SetTop(call) == [stack EXCEPT ![Len(stack)] = call]

Pop == SubSeq(stack, 1, Len(stack) - 1)

\* a user event can be dispatched: from the main loop, or from processEvents
\* inside the innermost process_gif call; a closed window gets none
CanDispatch == ~closed /\ (IF stack = <<>> THEN TRUE ELSE Top.pc \in PumpPcs)

\* GifBackgroundRemover.__init__
GuiInit ==
    /\ gif_path = NoPath
    /\ selected_color = NoColor
    /\ processed_gif_path = FALSE
    /\ movie = "none"
    /\ open_visible = TRUE
    /\ process_visible = FALSE
    /\ save_visible = FALSE
    /\ fuzz_visible = FALSE
    /\ fuzz = FuzzMin
    /\ status = ""
    /\ tempFile = Absent
    /\ closed = FALSE
    /\ stack = <<>>
    /\ removeFailed = FALSE

\* open_gif, the file dialog cancelled: gif_path becomes "" (NoPath stands for
\* both None and "", which the code only tests for truth)
open_gif_cancel ==
    /\ CanDispatch /\ open_visible
    /\ gif_path' = NoPath
    /\ UNCHANGED <<selected_color, processed_gif_path, movie, open_visible,
                   process_visible, save_visible, fuzz_visible, fuzz, status,
                   tempFile, closed, stack, removeFailed, cwVars>>

\* open_gif, a file chosen
open_gif(docs) ==
    /\ CanDispatch /\ open_visible
    /\ \E doc \in docs : gif_path' = doc
    /\ movie' = "input"
    /\ selected_color' = NoColor
    /\ open_visible' = FALSE
    /\ process_visible' = TRUE
    /\ save_visible' = FALSE
    /\ fuzz_visible' = TRUE
    /\ status' = "Click a colour on the image to select the background colour."
    /\ UNCHANGED <<processed_gif_path, fuzz, tempFile, closed, stack,
                   removeFailed, cwVars>>

\* GifLabel.mousePressEvent on a displayed movie, then on_color_selected
on_color_selected(colors) ==
    /\ CanDispatch /\ movie # "none"
    /\ \E color \in colors : selected_color' = color
    /\ status' = "Selected color"
    /\ UNCHANGED <<gif_path, processed_gif_path, movie, open_visible,
                   process_visible, save_visible, fuzz_visible, fuzz, tempFile,
                   closed, stack, removeFailed, cwVars>>

\* the user moves fuzz_slider (update_fuzz_label only rewrites the label)
update_fuzz_label(values) ==
    /\ CanDispatch /\ fuzz_visible
    /\ \E value \in values : value # fuzz /\ fuzz' = value
    /\ UNCHANGED <<gif_path, selected_color, processed_gif_path, movie,
                   open_visible, process_visible, save_visible, fuzz_visible,
                   status, tempFile, closed, stack, removeFailed, cwVars>>

\* process_gif, lines 337-339: nothing selected
process_gif_no_selection ==
    /\ CanDispatch /\ process_visible
    /\ gif_path = NoPath \/ selected_color = NoColor
    /\ status' = "Please select a color first."
    /\ UNCHANGED <<gif_path, selected_color, processed_gif_path, movie,
                   open_visible, process_visible, save_visible, fuzz_visible,
                   fuzz, tempFile, closed, stack, removeFailed, cwVars>>

\* process_gif, lines 337-343: a call starts and enters processEvents
process_gif_begin ==
    /\ CanDispatch /\ process_visible
    /\ gif_path # NoPath /\ selected_color # NoColor
    /\ Len(stack) < MaxDepth
    /\ stack' = Append(stack, NewCall(fuzz))
    /\ status' = "Processing GIF..."
    /\ UNCHANGED <<gif_path, selected_color, processed_gif_path, movie,
                   open_visible, process_visible, save_visible, fuzz_visible,
                   fuzz, tempFile, closed, removeFailed, cwVars>>

\* process_gif, lines 345-352: Image.open, transparency_color is read
process_gif_open ==
    /\ stack # <<>> /\ Top.pc = "events_343"
    /\ \E readable \in BOOLEAN :
          IF readable /\ gif_path # NoPath
          THEN /\ stack' = SetTop([Top EXCEPT !.pc = "events_352",
                                              !.img = gif_path,
                                              !.transparency_color = selected_color])
               /\ status' = "Calculating GIF's overall bounding box..."
          ELSE /\ stack' = SetTop([Top EXCEPT !.pc = "except"])
               /\ status' = "Error processing GIF"
    /\ UNCHANGED <<gif_path, selected_color, processed_gif_path, movie,
                   open_visible, process_visible, save_visible, fuzz_visible,
                   fuzz, tempFile, closed, removeFailed, cwVars>>

\* process_gif, lines 354-406: the transparency pass over every frame, the
\* box, the all-transparent test, the new canvas size.  A transparency_color
\* of None raises in color_within_fuzz.
process_gif_classify ==
    /\ stack # <<>> /\ Top.pc = "events_352"
    /\ IF Top.transparency_color = NoColor
       THEN /\ stack' = SetTop([Top EXCEPT !.pc = "except"])
            /\ status' = "Error processing GIF"
       ELSE LET r == ClassifyFrames(Top.img, Top.transparency_color,
                                    Top.fuzz_percentage, 1, InitialBox(Top.img), <<>>)
                call == [Top EXCEPT !.min_x = r.box[1], !.min_y = r.box[2],
                                    !.max_x = r.box[3], !.max_y = r.box[4],
                                    !.temp_frames = r.temp_frames]
            IN  IF BoxIsEmpty(r.box)
                THEN /\ stack' = SetTop([call EXCEPT !.pc = "all_transparent"])
                     /\ status' = "All pixels are transparent after color removal."
                ELSE /\ stack' = SetTop([call EXCEPT !.pc = "events_406"])
                     /\ status' = "New canvas size"
    /\ UNCHANGED <<gif_path, selected_color, processed_gif_path, movie,
                   open_visible, process_visible, save_visible, fuzz_visible,
                   fuzz, tempFile, closed, removeFailed, cwVars>>

\* process_gif, lines 395-396: the information box, return
process_gif_all_transparent ==
    /\ stack # <<>> /\ Top.pc = "all_transparent"
    /\ stack' = Pop
    /\ UNCHANGED <<gif_path, selected_color, processed_gif_path, movie,
                   open_visible, process_visible, save_visible, fuzz_visible,
                   fuzz, status, tempFile, closed, removeFailed, cwVars>>

\* process_gif, lines 408-409
process_gif_cropping ==
    /\ stack # <<>> /\ Top.pc = "events_406"
    /\ stack' = SetTop([Top EXCEPT !.pc = "events_409"])
    /\ status' = "Cropping frames to the new canvas size..."
    /\ UNCHANGED <<gif_path, selected_color, processed_gif_path, movie,
                   open_visible, process_visible, save_visible, fuzz_visible,
                   fuzz, tempFile, closed, removeFailed, cwVars>>

\* process_gif, lines 411-440: crop, quantize and remap every frame
process_gif_crop(highs) ==
    /\ stack # <<>> /\ Top.pc = "events_409"
    /\ \E high \in highs :
          LET cropped == CroppedFrames(Top)
              quantized == [k \in 1..Len(cropped) |->
                               Quantize(cropped[k], QuantColors, high)]
              frames == [k \in 1..Len(cropped) |-> Remap(quantized[k], cropped[k])]
          IN  stack' = SetTop([Top EXCEPT
                                  !.pc = "events_440",
                                  !.quantized = quantized,
                                  !.processed_frames = frames,
                                  !.processed_durations =
                                      ProcessedDurations(Top.temp_frames)])
    /\ status' = "Saving processed frames..."
    /\ UNCHANGED <<gif_path, selected_color, processed_gif_path, movie,
                   open_visible, process_visible, save_visible, fuzz_visible,
                   fuzz, tempFile, closed, removeFailed, cwVars>>

\* what processed_frames[0].save(..., save_all=True, append_images=...,
\* duration=processed_durations, ...) leaves on disk when it succeeds: the
\* frames and durations it was handed
EncodedGif(call) ==
    [state |-> "complete", frames |-> call.processed_frames,
     durations |-> call.processed_durations]

\* process_gif, lines 442-452: processed_gif_path is set, then the frames are
\* saved.  The save can fail before the file is opened for writing (the file
\* on disk stays as it was) or while writing (a partial file is left; a
\* library that removes a file it created itself leaves none if none was
\* there before).
process_gif_save ==
    /\ stack # <<>> /\ Top.pc = "events_440"
    /\ processed_gif_path' = TRUE
    /\ \E outcome \in {"saved", "open_failed", "write_failed", "write_failed_removed"} :
          /\ outcome = "write_failed_removed" => tempFile = Absent
          /\ IF outcome = "saved"
             THEN /\ tempFile' = EncodedGif(Top)
                  /\ stack' = SetTop([Top EXCEPT !.pc = "saved"])
                  /\ status' = status
             ELSE /\ tempFile' = IF outcome = "write_failed" THEN Partial ELSE tempFile
                  /\ stack' = SetTop([Top EXCEPT !.pc = "except"])
                  /\ status' = "Error processing GIF"
    /\ UNCHANGED <<gif_path, selected_color, movie, open_visible,
                   process_visible, save_visible, fuzz_visible, fuzz, closed,
                   removeFailed, cwVars>>

\* process_gif, lines 454-473: the processed movie is shown, the save button
\* replaces the process button, return
process_gif_finish ==
    /\ stack # <<>> /\ Top.pc = "saved"
    /\ movie' = "output"
    /\ status' = "Background removed."
    /\ save_visible' = TRUE
    /\ process_visible' = FALSE
    /\ fuzz_visible' = FALSE
    /\ stack' = Pop
    /\ UNCHANGED <<gif_path, selected_color, processed_gif_path, open_visible,
                   fuzz, tempFile, closed, removeFailed, cwVars>>

\* process_gif, lines 475-477: except Exception, the error box, return
process_gif_except ==
    /\ stack # <<>> /\ Top.pc = "except"
    /\ stack' = Pop
    /\ UNCHANGED <<gif_path, selected_color, processed_gif_path, movie,
                   open_visible, process_visible, save_visible, fuzz_visible,
                   fuzz, status, tempFile, closed, removeFailed, cwVars>>

\* save_gif, lines 480-487: nothing to save, or the file dialog cancelled
save_gif_cancel ==
    /\ CanDispatch /\ save_visible
    /\ UNCHANGED vars

\* mutant: the except branch of the copy falls through to the removal
save_gif_copy_fails_falls_through ==
    /\ CanDispatch /\ save_visible
    /\ processed_gif_path
    /\ movie' = "none"
    /\ status' = "Error saving GIF"
    /\ tempFile' = Absent
    /\ processed_gif_path' = FALSE
    /\ save_visible' = FALSE
    /\ open_visible' = TRUE
    /\ fuzz_visible' = FALSE
    /\ UNCHANGED <<gif_path, selected_color, process_visible, fuzz, closed,
                   stack, removeFailed, cwVars>>

\* save_gif, lines 489-501: the movie is stopped, shutil.copy raises (always
\* when there is no file to copy)
save_gif_copy_fails ==
    /\ CanDispatch /\ save_visible
    /\ processed_gif_path
    /\ movie' = "none"
    /\ status' = "Error saving GIF"
    /\ UNCHANGED <<gif_path, selected_color, processed_gif_path, open_visible,
                   process_visible, save_visible, fuzz_visible, fuzz, tempFile,
                   closed, stack, removeFailed, cwVars>>

\* save_gif, lines 489-508: copied, os.remove raises PermissionError
save_gif_remove_fails ==
    /\ CanDispatch /\ save_visible
    /\ processed_gif_path /\ tempFile # Absent
    /\ movie' = "none"
    /\ status' = "Unable to delete temporary file."
    /\ removeFailed' = TRUE
    /\ UNCHANGED <<gif_path, selected_color, processed_gif_path, open_visible,
                   process_visible, save_visible, fuzz_visible, fuzz, tempFile,
                   closed, stack, cwVars>>

\* save_gif, lines 489-523: copied, the temporary file removed, the open
\* button replaces the save button
save_gif ==
    /\ CanDispatch /\ save_visible
    /\ processed_gif_path /\ tempFile # Absent
    /\ movie' = "none"
    /\ status' = "Processed GIF saved"
    /\ tempFile' = Absent
    /\ processed_gif_path' = FALSE
    /\ save_visible' = FALSE
    /\ open_visible' = TRUE
    /\ fuzz_visible' = FALSE
    /\ UNCHANGED <<gif_path, selected_color, process_visible, fuzz, closed,
                   stack, removeFailed, cwVars>>

\* closeEvent: the movie is stopped, the temporary file removed if
\* processed_gif_path is set and the file exists; PermissionError is passed
closeEvent ==
    /\ CanDispatch
    /\ movie' = "none"
    /\ closed' = TRUE
    /\ \E permitted \in BOOLEAN :
          IF processed_gif_path /\ tempFile # Absent
          THEN IF permitted
               THEN tempFile' = Absent /\ removeFailed' = removeFailed
               ELSE tempFile' = tempFile /\ removeFailed' = TRUE
          ELSE permitted /\ tempFile' = tempFile /\ removeFailed' = removeFailed
    /\ UNCHANGED <<gif_path, selected_color, processed_gif_path, open_visible,
                   process_visible, save_visible, fuzz_visible, fuzz, status,
                   stack, cwVars>>

----------------------------------------------------------------------------
(* Specifications *)

CwIdle ==
    /\ cw_pixel = Black
    /\ cw_target = Black
    /\ cw_fuzz = FuzzMin
    /\ cw_result = "pending"

\* the steps of an active process_gif call
ProcessSteps(highs) ==
    \/ process_gif_open
    \/ process_gif_classify
    \/ process_gif_all_transparent
    \/ process_gif_cropping
    \/ process_gif_crop(highs)
    \/ process_gif_save
    \/ process_gif_finish
    \/ process_gif_except

\* The window with every handler; events are dispatched from the main loop
\* and from processEvents inside process_gif.
Init == GuiInit /\ CwIdle

Next ==
    \/ open_gif_cancel
    \/ open_gif(GuiDocs)
    \/ on_color_selected(GuiColors)
    \/ update_fuzz_label(GuiFuzzValues)
    \/ process_gif_no_selection
    \/ process_gif_begin
    \/ ProcessSteps({FALSE})
    \/ save_gif_cancel
    \/ save_gif_copy_fails
    \/ save_gif_remove_fails
    \/ save_gif
    \/ closeEvent

Spec == Init /\ [][Next]_vars

\* One document opened and processed, with the window left alone while
\* process_gif runs (no event is pending at its processEvents calls); the
\* document is any frame sequence of the shapes of Shapes.
NextFrames ==
    \/ stack = <<>> /\ open_gif(FrameDocs)
    \/ stack = <<>> /\ on_color_selected(Colors)
    \/ stack = <<>> /\ update_fuzz_label(FuzzValues)
    \/ stack = <<>> /\ process_gif_begin
    \/ ProcessSteps(BOOLEAN)

SpecFrames == Init /\ [][NextFrames]_vars

\* color_within_fuzz alone, called on arguments drawn from bounded sets
ChannelValues == {0, 1, 255}

FuzzColors == {<<r, g, b>> : r \in ChannelValues, g \in ChannelValues, b \in ChannelValues}

InitFuzz ==
    /\ GuiInit
    /\ cw_pixel \in FuzzColors
    /\ cw_target \in FuzzColors
    /\ cw_fuzz \in FuzzMin..FuzzMax
    /\ cw_result = "pending"

color_within_fuzz_call ==
    /\ cw_result = "pending"
    /\ cw_result' = IF color_within_fuzz(cw_pixel, cw_target, cw_fuzz)
                    THEN "true" ELSE "false"
    /\ UNCHANGED <<cw_pixel, cw_target, cw_fuzz, guiVars>>

NextFuzz == color_within_fuzz_call

SpecFuzz == InitFuzz /\ [][NextFuzz]_vars

----------------------------------------------------------------------------
(* Properties *)

\* the places of a call after the all-transparent test let it through
PastCheckPcs == {"events_406", "events_409", "events_440", "saved"}

\* the places of a call that hold processed_frames
RemappedPcs == {"events_440", "saved"}

Calls == {stack[i] : i \in 1..Len(stack)}

\* the coordinates, in any frame of temp_frames, of the pixels whose alpha is not 0
OpaquePoints(call) ==
    { <<(i - 1) % call.img.width, (i - 1) \div call.img.width>> :
        i \in { j \in 1..(call.img.width * call.img.height) :
                  \E k \in 1..Len(call.temp_frames) :
                      call.temp_frames[k].data[j][4] # 0 } }

\* C1: the crop rectangle of a call that was not aborted is the tightest box
\* around the pixels of the transparency-processed frames whose alpha is
\* not 0: min_x, min_y, max_x, max_y are the least and greatest x and y of
\* those pixels.
C1_TightestOpaqueBox ==
    \A call \in Calls :
        (call.pc \in PastCheckPcs /\ OpaquePoints(call) # {}) =>
            LET pts == OpaquePoints(call)
            IN  /\ \A pt \in pts : call.min_x <= pt[1] /\ pt[1] <= call.max_x
                /\ \A pt \in pts : call.min_y <= pt[2] /\ pt[2] <= call.max_y
                /\ \E pt \in pts : pt[1] = call.min_x
                /\ \E pt \in pts : pt[1] = call.max_x
                /\ \E pt \in pts : pt[2] = call.min_y
                /\ \E pt \in pts : pt[2] = call.max_y

\* every pixel of every frame of the call's image is within fuzz of its colour
AllBackground(call) ==
    \A k \in 1..Len(call.img.frames) :
        \A i \in 1..Len(call.img.frames[k].data) :
            color_within_fuzz(RGB(call.img.frames[k].data[i]),
                              call.transparency_color, call.fuzz_percentage)

\* a step of the innermost call itself, from its start to the return of the
\* all-transparent path: the call is pushed, moves on from a place before the
\* test, or returns from "all_transparent"
StepUpToAllTransparentReturn ==
    \/ Len(stack') = Len(stack) + 1
    \/ /\ stack # <<>> /\ Len(stack') = Len(stack)
       /\ Top.pc \in {"events_343", "events_352"}
       /\ stack'[Len(stack')].pc # Top.pc
    \/ /\ stack # <<>> /\ Top.pc = "all_transparent"
       /\ Len(stack') = Len(stack) - 1

\* C2: a call takes the all-transparent return exactly when every pixel of
\* every frame is background for its colour and fuzz, and no step of a call
\* up to and including that return writes the temporary file, changes
\* processed_gif_path or shows the save button.
C2_AbortIffAllBackground ==
    /\ [](\A call \in Calls :
            /\ call.pc = "all_transparent" => AllBackground(call)
            /\ call.pc \in PastCheckPcs => ~AllBackground(call))
    /\ [][StepUpToAllTransparentReturn =>
            UNCHANGED <<tempFile, processed_gif_path, save_visible>>]_vars

C2_Witness ==
    \E call \in Calls : call.pc = "all_transparent" /\ AllBackground(call)

\* C3: at fuzz 0, color_within_fuzz is true exactly when the two colours are
\* equal in every channel.
C3_ExactMatchAtZero ==
    (cw_result # "pending" /\ cw_fuzz = FuzzMin) =>
        (cw_result = "true" <=> cw_pixel = cw_target)

C3_Witness ==
    /\ cw_fuzz = FuzzMin /\ cw_result = "false"
    /\ cw_pixel = <<0, 0, 1>> /\ cw_target = <<0, 0, 0>>

\* C4 as stated: at fuzz 100 every colour is classified as background.
C4_AllBackgroundAtHundred ==
    (cw_result # "pending" /\ cw_fuzz = FuzzMax) => cw_result = "true"

\* C4 amended: at fuzz 100 color_within_fuzz is true exactly when the
\* Euclidean RGB distance of the two colours is at most 255.
C4_WithinMaxChannelAtHundred ==
    (cw_result # "pending" /\ cw_fuzz = FuzzMax) =>
        (cw_result = "true" <=>
            SqDistance(cw_pixel, cw_target) <= MaxChannel * MaxChannel)

C4_Witness ==
    /\ cw_fuzz = FuzzMax /\ cw_result = "false"
    /\ cw_pixel = <<255, 255, 255>> /\ cw_target = <<0, 0, 0>>

\* C5: in every indexed frame a call produces, a pixel has index 255 exactly
\* when its alpha in the cropped RGBA frame is 0, and a pixel with non-zero
\* alpha keeps the quantizer's index, which is in 0..254; the file written
\* holds those frames.
C5_TransparentIndexReserved ==
    \A call \in Calls :
        call.pc \in RemappedPcs =>
            /\ \A k \in 1..Len(call.processed_frames) :
                  LET cropped == CroppedFrames(call)[k]
                      frame_p == call.processed_frames[k]
                  IN  /\ Len(frame_p) = Len(cropped)
                      /\ \A i \in 1..Len(frame_p) :
                            /\ frame_p[i] = TransparentIndex <=> cropped[i][4] = 0
                            /\ cropped[i][4] # 0 =>
                                  /\ frame_p[i] = call.quantized[k][i]
                                  /\ frame_p[i] \in 0..(TransparentIndex - 1)
            /\ call.pc = "saved" => tempFile.frames = call.processed_frames

C5_Witness ==
    \E call \in Calls :
        /\ call.pc = "saved"
        /\ \E k \in 1..Len(call.processed_frames) :
              /\ \E i \in 1..Len(call.processed_frames[k]) :
                    call.processed_frames[k][i] = TransparentIndex
              /\ \E i \in 1..Len(call.processed_frames[k]) :
                    call.processed_frames[k][i] = TransparentIndex - 1

\* C6: the file a call has written holds as many frames as the image it read,
\* and its durations are those of the image's frames in order, 100 standing
\* for a frame without a duration.
C6_DurationsPreserved ==
    \A call \in Calls :
        call.pc = "saved" =>
            /\ tempFile.state = "complete"
            /\ Len(tempFile.frames) = Len(call.img.frames)
            /\ Len(tempFile.durations) = Len(call.img.frames)
            /\ \A k \in 1..Len(call.img.frames) :
                  IF call.img.frames[k].duration = {}
                  THEN tempFile.durations[k] = DefaultDuration
                  ELSE tempFile.durations[k] \in call.img.frames[k].duration

C6_Witness ==
    \E call \in Calls :
        /\ call.pc = "saved"
        /\ Len(call.img.frames) = 2
        /\ tempFile.durations = <<40, DefaultDuration>>

\* C7: at most one process_gif call is active at any time.
C7_OneRunInFlight == Len(stack) <= 1

\* C8: once process_gif has returned through its except branch, no partial
\* temporary file is on disk and the save button is not shown.
C8_NoPartialFileAfterFailure ==
    (stack = <<>> /\ status = "Error processing GIF") =>
        (tempFile # Partial /\ ~save_visible)

\* C9: the step of save_gif in which the copy fails leaves the temporary file
\* and processed_gif_path as they were, processed_gif_path set and the save
\* button visible.
C9_CopyFailureKeepsArtifact ==
    [][(status' = "Error saving GIF" /\ status # "Error saving GIF") =>
          /\ tempFile' = tempFile
          /\ processed_gif_path /\ processed_gif_path'
          /\ save_visible /\ save_visible']_vars

C9_Witness ==
    /\ status = "Error saving GIF"
    /\ tempFile.state = "complete"
    /\ processed_gif_path /\ save_visible

\* C10: as long as no os.remove has failed, no temporary file is on disk
\* after save_gif has copied it, after open_gif has loaded a document, or
\* after closeEvent.
C10_NoTempFileAfterCleanup ==
    ~removeFailed =>
        ((\/ status = "Processed GIF saved"
          \/ status = "Click a colour on the image to select the background colour."
          \/ closed)
            => tempFile = Absent)

\* how many of the three action buttons are visible
VisibleButtons ==
    (IF open_visible THEN 1 ELSE 0) + (IF process_visible THEN 1 ELSE 0)
        + (IF save_visible THEN 1 ELSE 0)

\* C11: whenever no handler is running, exactly one of the Open GIF, Remove
\* Background and Save Processed GIF buttons is visible, and the save button
\* is visible only if processed_gif_path is set.
C11_ExactlyOneButton ==
    stack = <<>> =>
        /\ VisibleButtons = 1
        /\ save_visible => processed_gif_path

====
